---- MODULE Spec2Model ----
(***************************************************************************)
(* restore(repos): bounded-parallel fetch of a list of repositories, in    *)
(* the four variants of the repository:                                    *)
(*   1  01-original                                                        *)
(*   2  02-release-locks-and-semaphores                                    *)
(*   4  04-avoid-mixing-anon-funcs-and-goroutines                          *)
(*   6  06-before-you-start-a-goroutine                                    *)
(* One goroutine runs restore (the "main" process, program counter pc);    *)
(* restore starts one goroutine per element of repos (program counters     *)
(* wpc[w]).  Channels are modelled by their buffer and a closed flag, the  *)
(* WaitGroup by its counter.  Every channel operation, every WaitGroup     *)
(* operation and every call of fetch is one atomic step.                   *)
(***************************************************************************)
EXTENDS Integers, Sequences, FiniteSets, TLC

\* Largest number of repos restore is called with.
MaxRepos == 5

\* sem := make(chan int, 4)
SemCap == 4

\* make(chan error): without the buffer of one, a select with a default case
\* never sends while no receiver waits.
ErrCapUnbuffered == 1 - 1

\* make(chan error, 2): a buffer with room for a second error.
ErrCapTwo == 1 + 1

\* errChan := make(chan error, 1)
ErrCap == 1

Variants == {1, 2, 4, 6}

VARIABLES
    variant,    \* which of the four source files is running
    repos,      \* the argument of restore: a sequence of items
    outcome,    \* what fetch does for each item, once it has been called for it
    pc,         \* position of restore
    idx,        \* number of loop iterations begun
    repo,       \* the loop variable of "for _, repo := range repos"
    sem,        \* number of values buffered in sem
    semClosed,  \* close(sem) has been executed
    errChan,    \* the buffer of errChan
    errClosed,  \* close(errChan) has been executed
    wg,         \* the WaitGroup counter
    wpc,        \* position of each goroutine
    arg,        \* the repo parameter of each goroutine (04, 06)
    err,        \* the local err of each goroutine (nil outside the if statement)
    ret,        \* the value restore returns
    fetched,    \* number of calls of fetch per item
    first,      \* 06: goroutine whose select on errChan came first (0: none yet)
    panicked,   \* a run-time panic has happened
    prev        \* what the previous call of restore returned (<<>>: no call yet)

vars == <<variant, repos, outcome, pc, idx, repo, sem, semClosed, errChan,
          errClosed, wg, wpc, arg, err, ret, fetched, first, panicked, prev>>

\* The nil error.
nil == <<>>

\* The error fetch produces for an item that fails.
ErrOf(r) == <<"fetch failed", r>>

\* fetch(repo): an external operation that either succeeds or fails (the
\* repository's fetch is a stand-in that prints its argument).  Its
\* outcome is a function of the item: it is chosen when fetch is first called
\* for the item and is the same in every later call.
Outcomes(r) == IF outcome[r] = "unknown" THEN {"ok", "fail"} ELSE {outcome[r]}

fetch(r, o) == IF o = "fail" THEN ErrOf(r) ELSE nil

\* The items whose fetch has failed.
failing == {r \in DOMAIN outcome : outcome[r] = "fail"}

Workers == 1..Len(repos)

\* Whether the variant acquires sem in the dispatch loop (01, 02) or in the
\* goroutine (04, 06).
AcquiresInLoop == variant \in {1, 2}

\* Whether the goroutine reads the loop variable (01, 02) or its own
\* parameter (04, 06).
CapturesLoopVar == variant \in {1, 2}

\* A buffer that admits one value more than its capacity.
SemFullOffByOne == sem > SemCap

\* Whether a send on sem blocks: the buffer of sem holds SemCap values.
SemFull == sem >= SemCap

InitFor(vs) ==
    /\ variant \in vs
    /\ \E n \in 0..MaxRepos : repos = [k \in 1..n |-> k]
    /\ outcome = [r \in Workers |-> "unknown"]
    /\ pc = "add"
    /\ idx = 0
    /\ repo = 0
    /\ sem = 0
    /\ semClosed = FALSE
    /\ errChan = <<>>
    /\ errClosed = FALSE
    /\ wg = 0
    /\ wpc = [w \in Workers |-> "idle"]
    /\ arg = [w \in Workers |-> 0]
    /\ err = [w \in Workers |-> nil]
    /\ ret = nil
    /\ fetched = [r \in Workers |-> 0]
    /\ first = 0
    /\ panicked = FALSE
    /\ prev = <<>>

Init == InitFor({6})

InitAll == InitFor(Variants)

\* Position of restore after the statement that starts goroutine number k.
AfterGo(k) == IF k = Len(repos) THEN "wait" ELSE "loop"

-----------------------------------------------------------------------------
\* restore

\* wg.Add(len(repos) - 1): the counter is one short of the goroutines started.
AddOneLess ==
    /\ ~panicked
    /\ pc = "add"
    /\ wg' = wg + Len(repos) - 1
    /\ pc' = AfterGo(0)
    /\ UNCHANGED <<prev, variant, repos, outcome, idx, repo, sem, semClosed, errChan,
                   errClosed, wpc, arg, err, ret, fetched, first, panicked>>

\* wg.Add(len(repos))
Add ==
    /\ ~panicked
    /\ pc = "add"
    /\ wg' = wg + Len(repos)
    /\ pc' = AfterGo(0)
    /\ UNCHANGED <<prev, variant, repos, outcome, idx, repo, sem, semClosed, errChan,
                   errClosed, wpc, arg, err, ret, fetched, first, panicked>>

\* The loop of 04 and 06 with the send on sem of 01 and 02 before the go
\* statement: the loop blocks while sem is full.
GoWorkerAcquiring ==
    /\ ~panicked
    /\ ~AcquiresInLoop
    /\ pc = "loop"
    /\ ~SemFull
    /\ sem' = sem + 1
    /\ idx' = idx + 1
    /\ repo' = repos[idx + 1]
    /\ arg' = [arg EXCEPT ![idx + 1] = repos[idx + 1]]
    /\ wpc' = [wpc EXCEPT ![idx + 1] = "fetch"]
    /\ pc' = AfterGo(idx + 1)
    /\ UNCHANGED <<prev, variant, repos, outcome, semClosed, errChan, errClosed,
                   wg, err, ret, fetched, first, panicked>>

\* 04: go func(repo string) {...}(repos[i])   06: go worker(repo, sem, &wg, errChan)
GoWorker ==
    /\ ~panicked
    /\ ~AcquiresInLoop
    /\ pc = "loop"
    /\ idx' = idx + 1
    /\ repo' = repos[idx + 1]
    /\ arg' = [arg EXCEPT ![idx + 1] = repos[idx + 1]]
    /\ wpc' = [wpc EXCEPT ![idx + 1] = "acquire"]
    /\ pc' = AfterGo(idx + 1)
    /\ UNCHANGED <<prev, variant, repos, outcome, sem, semClosed, errChan, errClosed,
                   wg, err, ret, fetched, first, panicked>>

\* 01, 02: for _, repo := range repos   (the next element is assigned to repo)
Range ==
    /\ ~panicked
    /\ AcquiresInLoop
    /\ pc = "loop"
    /\ idx' = idx + 1
    /\ repo' = repos[idx + 1]
    /\ pc' = "sem"
    /\ UNCHANGED <<prev, variant, repos, outcome, sem, semClosed, errChan, errClosed,
                   wg, wpc, arg, err, ret, fetched, first, panicked>>

\* A send on sem that is given up when sem is full: the loop goes on to the go
\* statement without having sent.
LoopAcquireNoBlock ==
    /\ ~panicked
    /\ AcquiresInLoop
    /\ pc = "sem"
    /\ sem' = IF SemFull THEN sem ELSE sem + 1
    /\ pc' = "go"
    /\ UNCHANGED <<prev, variant, repos, outcome, idx, repo, semClosed, errChan,
                   errClosed, wg, wpc, arg, err, ret, fetched, first, panicked>>

\* 01, 02: sem <- 1 in the loop; blocks while sem is full, panics when sem
\* is closed
LoopAcquire ==
    /\ ~panicked
    /\ AcquiresInLoop
    /\ pc = "sem"
    /\ ~SemFull \/ semClosed
    /\ sem' = IF semClosed THEN sem ELSE sem + 1
    /\ panicked' = semClosed
    /\ pc' = "go"
    /\ UNCHANGED <<prev, variant, repos, outcome, idx, repo, semClosed, errChan,
                   errClosed, wg, wpc, arg, err, ret, fetched, first>>

\* 01, 02: go func() {...}()
GoFunc ==
    /\ ~panicked
    /\ AcquiresInLoop
    /\ pc = "go"
    /\ wpc' = [wpc EXCEPT ![idx] = "fetch"]
    /\ pc' = AfterGo(idx)
    /\ UNCHANGED <<prev, variant, repos, outcome, idx, repo, sem, semClosed, errChan,
                   errClosed, wg, arg, err, ret, fetched, first, panicked>>

\* restore goes on without waiting for the counter to reach 0.
WaitNoBlock ==
    /\ ~panicked
    /\ pc = "wait"
    /\ pc' = IF variant \in {1, 2} THEN "closesem" ELSE "close"
    /\ UNCHANGED <<prev, variant, repos, outcome, idx, repo, sem, semClosed, errChan,
                   errClosed, wg, wpc, arg, err, ret, fetched, first, panicked>>

\* A wait that returns while one goroutine has not yet called wg.Done.
WaitOffByOne ==
    /\ ~panicked
    /\ pc = "wait"
    /\ wg <= 1
    /\ pc' = IF variant \in {1, 2} THEN "closesem" ELSE "close"
    /\ UNCHANGED <<prev, variant, repos, outcome, idx, repo, sem, semClosed, errChan,
                   errClosed, wg, wpc, arg, err, ret, fetched, first, panicked>>

\* wg.Wait(): blocks until the counter is 0
Wait ==
    /\ ~panicked
    /\ pc = "wait"
    /\ wg = 0
    /\ pc' = IF variant \in {1, 2} THEN "closesem" ELSE "close"
    /\ UNCHANGED <<prev, variant, repos, outcome, idx, repo, sem, semClosed, errChan,
                   errClosed, wg, wpc, arg, err, ret, fetched, first, panicked>>

\* 01, 02: close(sem)
CloseSem ==
    /\ ~panicked
    /\ pc = "closesem"
    /\ semClosed' = TRUE
    /\ pc' = "close"
    /\ UNCHANGED <<prev, variant, repos, outcome, idx, repo, sem, errChan, errClosed,
                   wg, wpc, arg, err, ret, fetched, first, panicked>>

\* restore goes on to the receive without closing errChan.
CloseErrSkipped ==
    /\ ~panicked
    /\ pc = "close"
    /\ pc' = "recv"
    /\ UNCHANGED <<prev, variant, repos, outcome, idx, repo, sem, semClosed, errChan,
                   errClosed, wg, wpc, arg, err, ret, fetched, first, panicked>>

\* close(errChan)
CloseErr ==
    /\ ~panicked
    /\ pc = "close"
    /\ errClosed' = TRUE
    /\ pc' = "recv"
    /\ UNCHANGED <<prev, variant, repos, outcome, idx, repo, sem, semClosed, errChan,
                   wg, wpc, arg, err, ret, fetched, first, panicked>>

\* return <-errChan: a buffered value if there is one, else the zero value
\* of a closed channel; blocks on an open empty channel
Return ==
    /\ ~panicked
    /\ pc = "recv"
    /\ Len(errChan) > 0 \/ errClosed
    /\ ret' = IF Len(errChan) > 0 THEN Head(errChan) ELSE nil
    /\ errChan' = IF Len(errChan) > 0 THEN Tail(errChan) ELSE errChan
    /\ pc' = "returned"
    /\ UNCHANGED <<prev, variant, repos, outcome, idx, repo, sem, semClosed,
                   errClosed, wg, wpc, arg, err, fetched, first, panicked>>

\* A second call that works on the errChan of the first call, as it would
\* with errChan declared outside restore.
restoreAgainShared ==
    /\ ~panicked
    /\ pc = "returned"
    /\ prev' = <<ret>>
    /\ pc' = "add"
    /\ idx' = 0
    /\ repo' = 0
    /\ sem' = 0
    /\ semClosed' = FALSE
    /\ wg' = 0
    /\ wpc' = [w \in Workers |-> "idle"]
    /\ arg' = [w \in Workers |-> 0]
    /\ err' = [w \in Workers |-> nil]
    /\ ret' = nil
    /\ fetched' = [r \in Workers |-> 0]
    /\ first' = 0
    /\ UNCHANGED <<variant, repos, outcome, errChan, errClosed, panicked>>

\* restore(repos) is called again after it has returned: errChan, sem and wg
\* are made anew, the goroutines of the new call are yet to be started, and
\* fetch does for each item what it did before.
restoreAgain ==
    /\ ~panicked
    /\ pc = "returned"
    /\ prev' = <<ret>>
    /\ pc' = "add"
    /\ idx' = 0
    /\ repo' = 0
    /\ sem' = 0
    /\ semClosed' = FALSE
    /\ errChan' = <<>>
    /\ errClosed' = FALSE
    /\ wg' = 0
    /\ wpc' = [w \in Workers |-> "idle"]
    /\ arg' = [w \in Workers |-> 0]
    /\ err' = [w \in Workers |-> nil]
    /\ ret' = nil
    /\ fetched' = [r \in Workers |-> 0]
    /\ first' = 0
    /\ UNCHANGED <<variant, repos, outcome, panicked>>

-----------------------------------------------------------------------------
\* the goroutines

\* A goroutine whose wg.Done() comes right after the error handling, as in 01,
\* whatever the variant.
AfterStoreDoneFirst == "done"

\* Position of a goroutine after its error handling: 01 runs the deferred
\* function (wg.Done() first), the others receive from sem.
AfterStore == IF variant = 1 THEN "done" ELSE "release"

\* 04, 06: sem <- 1 in the goroutine; blocks while sem is full
Acquire(w) ==
    /\ ~panicked
    /\ wpc[w] = "acquire"
    /\ ~SemFull
    /\ sem' = sem + 1
    /\ wpc' = [wpc EXCEPT ![w] = "fetch"]
    /\ UNCHANGED <<prev, variant, repos, outcome, pc, idx, repo, semClosed, errChan,
                   errClosed, wg, arg, err, ret, fetched, first, panicked>>

\* A goroutine that reads the loop variable of restore at the call of fetch,
\* whatever the variant.
FetchArgShared(w) == repo

\* A loop variable that is a new variable in each iteration: the goroutine
\* reads the element of the iteration that started it, whatever the variant.
FetchArgOwn(w) == repos[w]

\* The item a goroutine passes to fetch.
FetchArg(w) == IF CapturesLoopVar THEN repo ELSE arg[w]

\* if err := fetch(repo); err == nil: the test of err is inverted.
FetchInverted(w) ==
    /\ ~panicked
    /\ wpc[w] = "fetch"
    /\ \E o \in Outcomes(FetchArg(w)) :
          /\ outcome' = [outcome EXCEPT ![FetchArg(w)] = o]
          /\ err' = [err EXCEPT ![w] = fetch(FetchArg(w), o)]
          /\ wpc' = [wpc EXCEPT ![w] =
                IF fetch(FetchArg(w), o) = nil THEN "store" ELSE AfterStore]
    /\ fetched' = [fetched EXCEPT ![FetchArg(w)] = @ + 1]
    /\ UNCHANGED <<prev, variant, repos, pc, idx, repo, sem, semClosed,
                   errChan, errClosed, wg, arg, ret, first, panicked>>

\* if err := fetch(repo); err != nil
Fetch(w) ==
    /\ ~panicked
    /\ wpc[w] = "fetch"
    /\ \E o \in Outcomes(FetchArg(w)) :
          /\ outcome' = [outcome EXCEPT ![FetchArg(w)] = o]
          /\ err' = [err EXCEPT ![w] = fetch(FetchArg(w), o)]
          /\ wpc' = [wpc EXCEPT ![w] =
                IF fetch(FetchArg(w), o) # nil THEN "store" ELSE AfterStore]
    /\ fetched' = [fetched EXCEPT ![FetchArg(w)] = @ + 1]
    /\ UNCHANGED <<prev, variant, repos, pc, idx, repo, sem, semClosed,
                   errChan, errClosed, wg, arg, ret, first, panicked>>

\* Whether a send on errChan can proceed: there is room in the buffer, or
\* the channel is closed (and the send panics).
CanSend == Len(errChan) < ErrCap \/ errClosed

\* errChan <- err in place of the select: the goroutine blocks while errChan
\* is full.
TrySendBlocking(w) ==
    /\ ~panicked
    /\ variant = 6
    /\ wpc[w] = "store"
    /\ CanSend
    /\ errChan' = IF errClosed THEN errChan ELSE Append(errChan, err[w])
    /\ panicked' = errClosed
    /\ first' = IF first = 0 THEN w ELSE first
    /\ err' = [err EXCEPT ![w] = nil]
    /\ wpc' = [wpc EXCEPT ![w] = AfterStore]
    /\ UNCHANGED <<prev, variant, repos, outcome, pc, idx, repo, sem, semClosed,
                   errClosed, wg, arg, ret, fetched>>

\* A store that replaces the error errChan holds by the new one.
TrySendOverwrite(w) ==
    /\ ~panicked
    /\ variant = 6
    /\ wpc[w] = "store"
    /\ errChan' = <<err[w]>>
    /\ panicked' = errClosed
    /\ first' = IF first = 0 THEN w ELSE first
    /\ err' = [err EXCEPT ![w] = nil]
    /\ wpc' = [wpc EXCEPT ![w] = AfterStore]
    /\ UNCHANGED <<prev, variant, repos, outcome, pc, idx, repo, sem, semClosed,
                   errClosed, wg, arg, ret, fetched>>

\* A goroutine that returns right after its store attempt: the deferred
\* wg.Done() runs, the receive from sem does not.
TrySendReturn(w) ==
    /\ ~panicked
    /\ variant = 6
    /\ wpc[w] = "store"
    /\ errChan' = IF CanSend /\ ~errClosed THEN Append(errChan, err[w])
                  ELSE errChan
    /\ panicked' = (CanSend /\ errClosed)
    /\ first' = IF first = 0 THEN w ELSE first
    /\ err' = [err EXCEPT ![w] = nil]
    /\ wpc' = [wpc EXCEPT ![w] = "done"]
    /\ UNCHANGED <<prev, variant, repos, outcome, pc, idx, repo, sem, semClosed,
                   errClosed, wg, arg, ret, fetched>>

\* 06: select { case errChan <- err: default: }
TrySend(w) ==
    /\ ~panicked
    /\ variant = 6
    /\ wpc[w] = "store"
    /\ errChan' = IF CanSend /\ ~errClosed THEN Append(errChan, err[w])
                  ELSE errChan
    /\ panicked' = (CanSend /\ errClosed)
    /\ first' = IF first = 0 THEN w ELSE first
    /\ err' = [err EXCEPT ![w] = nil]
    /\ wpc' = [wpc EXCEPT ![w] = AfterStore]
    /\ UNCHANGED <<prev, variant, repos, outcome, pc, idx, repo, sem, semClosed,
                   errClosed, wg, arg, ret, fetched>>

\* The select of 06 in 01, 02 and 04: the error is dropped when errChan is
\* full.
SendNonBlocking(w) ==
    /\ ~panicked
    /\ variant \in {1, 2, 4}
    /\ wpc[w] = "store"
    /\ errChan' = IF CanSend /\ ~errClosed THEN Append(errChan, err[w])
                  ELSE errChan
    /\ panicked' = (CanSend /\ errClosed)
    /\ err' = [err EXCEPT ![w] = nil]
    /\ wpc' = [wpc EXCEPT ![w] = AfterStore]
    /\ UNCHANGED <<prev, variant, repos, outcome, pc, idx, repo, sem, semClosed,
                   errClosed, wg, arg, ret, fetched, first>>

\* 01, 02, 04: errChan <- err; blocks while errChan is full
Send(w) ==
    /\ ~panicked
    /\ variant \in {1, 2, 4}
    /\ wpc[w] = "store"
    /\ CanSend
    /\ errChan' = IF errClosed THEN errChan ELSE Append(errChan, err[w])
    /\ panicked' = errClosed
    /\ err' = [err EXCEPT ![w] = nil]
    /\ wpc' = [wpc EXCEPT ![w] = AfterStore]
    /\ UNCHANGED <<prev, variant, repos, outcome, pc, idx, repo, sem, semClosed,
                   errClosed, wg, arg, ret, fetched, first>>

\* A goroutine that goes on to wg.Done() without receiving from sem.
ReleaseNoReceive(w) ==
    /\ ~panicked
    /\ wpc[w] = "release"
    /\ wpc' = [wpc EXCEPT ![w] = IF variant = 1 THEN "exit" ELSE "done"]
    /\ UNCHANGED <<prev, variant, repos, outcome, pc, idx, repo, sem, semClosed,
                   errChan, errClosed, wg, arg, err, ret, fetched, first,
                   panicked>>

\* A goroutine that receives from sem twice (once more in a deferred call).
ReleaseTwice(w) ==
    /\ ~panicked
    /\ wpc[w] = "release"
    /\ sem > 1 \/ semClosed
    /\ sem' = IF sem > 1 THEN sem - 2 ELSE 0
    /\ wpc' = [wpc EXCEPT ![w] = IF variant = 1 THEN "exit" ELSE "done"]
    /\ UNCHANGED <<prev, variant, repos, outcome, pc, idx, repo, semClosed, errChan,
                   errClosed, wg, arg, err, ret, fetched, first, panicked>>

\* A goroutine that closes sem after its receive.
ReleaseAndClose(w) ==
    /\ ~panicked
    /\ wpc[w] = "release"
    /\ sem > 0 \/ semClosed
    /\ sem' = IF sem > 0 THEN sem - 1 ELSE sem
    /\ semClosed' = TRUE
    /\ panicked' = semClosed
    /\ wpc' = [wpc EXCEPT ![w] = IF variant = 1 THEN "exit" ELSE "done"]
    /\ UNCHANGED <<prev, variant, repos, outcome, pc, idx, repo, errChan,
                   errClosed, wg, arg, err, ret, fetched, first>>

\* <-sem: blocks while sem is empty and open
Release(w) ==
    /\ ~panicked
    /\ wpc[w] = "release"
    /\ sem > 0 \/ semClosed
    /\ sem' = IF sem > 0 THEN sem - 1 ELSE sem
    /\ wpc' = [wpc EXCEPT ![w] = IF variant = 1 THEN "exit" ELSE "done"]
    /\ UNCHANGED <<prev, variant, repos, outcome, pc, idx, repo, semClosed, errChan,
                   errClosed, wg, arg, err, ret, fetched, first, panicked>>

\* A goroutine that calls wg.Done() twice (once more besides the deferred
\* call).
DoneTwice(w) ==
    /\ ~panicked
    /\ wpc[w] = "done"
    /\ wg' = wg - 2
    /\ panicked' = (wg - 2 < 0)
    /\ wpc' = [wpc EXCEPT ![w] = IF variant = 1 THEN "release" ELSE "exit"]
    /\ UNCHANGED <<prev, variant, repos, outcome, pc, idx, repo, sem, semClosed,
                   errChan, errClosed, arg, err, ret, fetched, first>>

\* wg.Done(): panics when the counter becomes negative
Done(w) ==
    /\ ~panicked
    /\ wpc[w] = "done"
    /\ wg' = wg - 1
    /\ panicked' = (wg - 1 < 0)
    /\ wpc' = [wpc EXCEPT ![w] = IF variant = 1 THEN "release" ELSE "exit"]
    /\ UNCHANGED <<prev, variant, repos, outcome, pc, idx, repo, sem, semClosed,
                   errChan, errClosed, arg, err, ret, fetched, first>>

-----------------------------------------------------------------------------
\* 06-before-you-start-a-goroutine

restore == Add \/ GoWorker \/ Wait \/ CloseErr \/ Return

worker(w) == Acquire(w) \/ Fetch(w) \/ TrySend(w) \/ Release(w) \/ Done(w)

Next ==
    \/ Add
    \/ GoWorker
    \/ Wait
    \/ CloseErr
    \/ Return
    \/ \E w \in Workers : Acquire(w)
    \/ \E w \in Workers : Fetch(w)
    \/ \E w \in Workers : TrySend(w)
    \/ \E w \in Workers : Release(w)
    \/ \E w \in Workers : Done(w)

Spec == Init /\ [][Next]_vars

\* The Go scheduler runs every goroutine that is able to run.
Fairness ==
    /\ WF_vars(restore)
    /\ \A w \in 1..MaxRepos : WF_vars(w \in Workers /\ worker(w))

FairSpec == Init /\ [][Next]_vars /\ Fairness

\* 06, with restore called again each time it has returned.
NextAgain ==
    \/ Add
    \/ GoWorker
    \/ Wait
    \/ CloseErr
    \/ Return
    \/ restoreAgain
    \/ \E w \in Workers : Acquire(w)
    \/ \E w \in Workers : Fetch(w)
    \/ \E w \in Workers : TrySend(w)
    \/ \E w \in Workers : Release(w)
    \/ \E w \in Workers : Done(w)

SpecAgain == Init /\ [][NextAgain]_vars

\* All four variants.
NextAll ==
    \/ Add
    \/ GoWorker
    \/ Range
    \/ LoopAcquire
    \/ GoFunc
    \/ Wait
    \/ CloseSem
    \/ CloseErr
    \/ Return
    \/ \E w \in Workers : Acquire(w)
    \/ \E w \in Workers : Fetch(w)
    \/ \E w \in Workers : TrySend(w)
    \/ \E w \in Workers : Send(w)
    \/ \E w \in Workers : Release(w)
    \/ \E w \in Workers : Done(w)

SpecAll == InitAll /\ [][NextAll]_vars

\* 04 and 06: the variants that send on sem in the goroutine.
Init46 == InitFor({4, 6})

Next46 ==
    \/ Add
    \/ GoWorker
    \/ Wait
    \/ CloseErr
    \/ Return
    \/ \E w \in Workers : Acquire(w)
    \/ \E w \in Workers : Fetch(w)
    \/ \E w \in Workers : TrySend(w)
    \/ \E w \in Workers : Send(w)
    \/ \E w \in Workers : Release(w)
    \/ \E w \in Workers : Done(w)

Spec46 == Init46 /\ [][Next46]_vars

\* 04 alone: the goroutine is the anonymous function of restore, with the
\* item as its parameter and a blocking send on errChan.
Init04 == InitFor({4})

func04(w) == Acquire(w) \/ Fetch(w) \/ Send(w) \/ Release(w) \/ Done(w)

Next04 ==
    \/ Add
    \/ GoWorker
    \/ Wait
    \/ CloseErr
    \/ Return
    \/ \E w \in Workers : Acquire(w)
    \/ \E w \in Workers : Fetch(w)
    \/ \E w \in Workers : Send(w)
    \/ \E w \in Workers : Release(w)
    \/ \E w \in Workers : Done(w)

Spec04 == Init04 /\ [][Next04]_vars

\* The Go scheduler runs every goroutine that is able to run.
Fairness04 ==
    /\ WF_vars(restore)
    /\ \A w \in 1..MaxRepos : WF_vars(w \in Workers /\ func04(w))

FairSpec04 == Init04 /\ [][Next04]_vars /\ Fairness04

\* 01 and 02: the variants that send on sem in the loop.
Init12 == InitFor({1, 2})

Next12 ==
    \/ Add
    \/ Range
    \/ LoopAcquire
    \/ GoFunc
    \/ Wait
    \/ CloseSem
    \/ CloseErr
    \/ Return
    \/ \E w \in Workers : Fetch(w)
    \/ \E w \in Workers : Send(w)
    \/ \E w \in Workers : Release(w)
    \/ \E w \in Workers : Done(w)

Spec12 == Init12 /\ [][Next12]_vars

\* 01-original alone.
Init01 == InitFor({1})

Spec01 == Init01 /\ [][Next12]_vars

\* 01, 02 and 04: the variants that store the error with a blocking send.
Init124 == InitFor({1, 2, 4})

Next124 ==
    \/ Add
    \/ GoWorker
    \/ Range
    \/ LoopAcquire
    \/ GoFunc
    \/ Wait
    \/ CloseSem
    \/ CloseErr
    \/ Return
    \/ \E w \in Workers : Acquire(w)
    \/ \E w \in Workers : Fetch(w)
    \/ \E w \in Workers : Send(w)
    \/ \E w \in Workers : Release(w)
    \/ \E w \in Workers : Done(w)

Spec124 == Init124 /\ [][Next124]_vars

-----------------------------------------------------------------------------
\* Properties

\* Goroutines for which a value has been put into sem and whose call of fetch
\* has not returned yet: those at fetch, and in 01 and 02 the one the loop has
\* already acquired sem for and is about to start.
Executing ==
    Cardinality({w \in Workers : wpc[w] = "fetch"})
        + (IF pc = "go" THEN 1 ELSE 0)

\* Goroutines of 04 and 06 that have sent on sem and not yet received from it.
Holders == {w \in Workers : wpc[w] \in {"fetch", "store", "release"}}

RECURSIVE SumUpTo(_, _)
SumUpTo(f, k) == IF k = 0 THEN 0 ELSE f[k] + SumUpTo(f, k - 1)

\* Number of calls of fetch so far.
FetchCalls == SumUpTo(fetched, Len(repos))

Errors == {ErrOf(r) : r \in failing}

\* C1: in every variant, at no point are more than SemCap (4) calls of fetch in
\* progress.
C1_AtMostCapFetches == Executing <= SemCap

\* C1 witness: the gate is full (4 calls of fetch in progress) while a fifth
\* goroutine, or the loop on behalf of a fifth, waits to send on sem.
C1_Witness ==
    /\ Executing = SemCap
    /\ \/ \E w \in Workers : wpc[w] = "acquire"
       \/ pc = "sem"

\* C2: in 06, when every goroutine that can run does run, restore eventually
\* returns, whatever the number of repos and whichever fetches fail.
C2_RestoreReturns == <>(pc = "returned")

\* C2 witness: restore has returned after more fetches than the gate admits
\* at once, all of which failed.
C2_Witness ==
    /\ pc = "returned"
    /\ Len(repos) > SemCap
    /\ failing = Workers

\* C3: in 06, restore has returned only if no goroutine is still before or
\* in its call of fetch.
C3_ReturnsAfterEveryFetch ==
    pc = "returned" => \A w \in Workers : wpc[w] \notin {"idle", "acquire", "fetch"}

\* C3 witness: restore has returned from a run in which some fetches failed
\* and some succeeded, and every fetch has been called.
C3_Witness ==
    /\ pc = "returned"
    /\ failing # {}
    /\ failing # Workers
    /\ \A r \in Workers : fetched[r] = 1

\* C4: in 06, if no fetch fails, restore returns nil, received from the closed
\* and empty errChan, and fetch has then been called exactly len(repos) times.
C4_SuccessAfterAllFetched ==
    (pc = "returned" /\ failing = {}) =>
        /\ ret = nil
        /\ errClosed
        /\ errChan = <<>>
        /\ FetchCalls = Len(repos)

\* C4 witness: restore has returned from a run of more repos than the gate
\* admits, none of which failed.
C4_Witness ==
    /\ pc = "returned"
    /\ failing = {}
    /\ Len(repos) > SemCap
    /\ FetchCalls = Len(repos)

\* C5: in 06, if exactly one fetch fails, restore returns the error of that
\* fetch.
C5_SingleErrorReturned ==
    (pc = "returned" /\ Cardinality(failing) = 1) =>
        \A r \in failing : ret = ErrOf(r)

\* C5 witness: restore has returned the error of the only failing fetch, that
\* of an item in the middle of repos, the others having succeeded.
C5_Witness ==
    /\ pc = "returned"
    /\ Len(repos) >= 3
    /\ failing = {2}
    /\ ret = ErrOf(2)

\* C6: in 06, if two or more fetches fail, restore returns one of the errors
\* the failing fetches produced (so not nil).
C6_OneOfTheErrorsReturned ==
    (pc = "returned" /\ Cardinality(failing) >= 2) => ret \in Errors

\* C6 witness: restore has returned, from a run in which at least two fetches
\* failed, the error of a goroutine that is not the first one started.
C6_Witness ==
    /\ pc = "returned"
    /\ Cardinality(failing) >= 2
    /\ ret \in Errors
    /\ ret # ErrOf(1)

\* C7: in 06, the error of the goroutine whose store attempt came first is the
\* one errChan holds from then on, and the one restore returns.
C7_FirstErrorWins ==
    first # 0 =>
        IF pc = "returned" THEN ret = ErrOf(arg[first])
        ELSE errChan = <<ErrOf(arg[first])>>

\* C7 witness: restore has returned the error of the first store attempt after
\* a later store attempt by another goroutine.
C7_Witness ==
    /\ pc = "returned"
    /\ first # 0
    /\ ret = ErrOf(arg[first])
    /\ failing \ {arg[first]} # {}

\* What a store attempt by w does to errChan.
StoreEffect(w) ==
    IF errChan # <<>> THEN errChan' = errChan ELSE errChan' = <<err[w]>>

\* C8: in 06, a store attempt never blocks; it leaves an occupied errChan as
\* it is and puts its error into an empty one; errChan holds at most one
\* error, and holds it unchanged until restore receives it.
C8_StoreNeverBlocksNorOverwrites ==
    /\ [](\A w \in Workers : wpc[w] = "store" => ENABLED TrySend(w))
    /\ [](Len(errChan) <= 1)
    /\ [][\A w \in Workers : TrySend(w) => StoreEffect(w)]_vars
    /\ [][(errChan # <<>> /\ pc # "recv") => errChan' = errChan]_vars

\* C8 witness: a goroutine is about to attempt a store while errChan holds the
\* error of another.
C8_Witness ==
    \E w \in Workers :
        /\ wpc[w] = "store"
        /\ Len(errChan) = 1
        /\ errChan[1] # err[w]

\* C9: in 06, with an empty repos, restore never enters the loop body, is
\* never blocked, and returns nil.
C9_EmptyReposReturnsNil ==
    Len(repos) = 0 =>
        /\ pc # "loop"
        /\ idx = 0
        /\ pc # "returned" => ENABLED restore
        /\ pc = "returned" => ret = nil

\* C9 witness: restore has returned from a call with an empty repos.
C9_Witness ==
    /\ Len(repos) = 0
    /\ pc = "returned"
    /\ ret = nil

\* C10: in 06, once an error has been stored no goroutine is kept from
\* running: fetch is called at most once per item, a goroutine that has not
\* finished can take a step unless it waits for a gate that four running
\* goroutines hold, and restore has
\* returned only if every goroutine has called fetch once, released the gate
\* and called wg.Done.
C10_NoShortCircuit ==
    first # 0 =>
        /\ \A r \in Workers : fetched[r] <= 1
        /\ \A w \in Workers :
               wpc[w] \notin {"idle", "exit"} =>
                   \/ ENABLED worker(w)
                   \/ wpc[w] = "acquire" /\ Cardinality(Holders) = SemCap
        /\ pc = "returned" =>
               /\ \A w \in Workers : wpc[w] = "exit" /\ fetched[arg[w]] = 1
               /\ sem = 0
               /\ wg = 0

\* C10 witness: a goroutine calls fetch after another goroutine has stored its
\* error.
C10_Witness ==
    /\ first # 0
    /\ wpc[first] = "exit"
    /\ \E w \in Workers : wpc[w] = "acquire"
    /\ \E w \in Workers : wpc[w] = "fetch"

\* The steps of a goroutine of 06, in the order of the source.
WorkerOrder ==
    { <<"idle", "acquire">>, <<"acquire", "fetch">>, <<"fetch", "store">>,
      <<"fetch", "release">>, <<"store", "release">>, <<"release", "done">>,
      <<"done", "exit">> }

\* Goroutine w goes from position a to position b in this step.
Moves(w, a, b) == wpc[w] = a /\ wpc'[w] = b

\* C11: in 06, every goroutine goes through acquire (sem <- 1), fetch, the
\* optional store, release (<-sem) and wg.Done in this order: sem grows only
\* by a goroutine's acquire, fetch is called only by a goroutine that has
\* acquired and not released, errChan grows only by a goroutine that has
\* fetched, sem shrinks only by the release of a goroutine that has fetched,
\* and wg shrinks only by a goroutine that has released.
C11_WorkerStepsInOrder ==
    [][ /\ \A w \in Workers : wpc'[w] # wpc[w] => <<wpc[w], wpc'[w]>> \in WorkerOrder
        /\ sem' > sem => \E w \in Workers : Moves(w, "acquire", "fetch")
        /\ fetched' # fetched =>
               \E w \in Workers :
                   /\ wpc[w] = "fetch" /\ wpc'[w] \in {"store", "release"}
                   /\ sem >= 1
        /\ Len(errChan') > Len(errChan) => \E w \in Workers : Moves(w, "store", "release")
        /\ sem' < sem => \E w \in Workers : Moves(w, "release", "done")
        /\ wg' < wg => \E w \in Workers : Moves(w, "done", "exit")
      ]_vars

\* C11 witness: a goroutine whose fetch failed has released the gate and has
\* not yet called wg.Done.
C11_Witness ==
    \E w \in Workers :
        /\ wpc[w] = "done"
        /\ arg[w] \in failing
        /\ wg = Len(repos)
        /\ sem = 0

\* C12: in 06, when restore has returned every goroutine has terminated, sem
\* is empty, no error waits to be stored, and nothing can take a step any
\* more.
C12_QuiescentAtReturn ==
    pc = "returned" =>
        /\ \A w \in Workers : wpc[w] = "exit" /\ err[w] = nil
        /\ sem = 0
        /\ wg = 0
        /\ ~panicked
        /\ ~ENABLED Next

\* C12 witness: restore has returned from a run of more repos than the gate
\* admits in which several fetches failed, and the gate is empty.
C12_Witness ==
    /\ pc = "returned"
    /\ Len(repos) > SemCap
    /\ Cardinality(failing) >= 2
    /\ sem = 0

\* Goroutines that have been started.
Started == {w \in Workers : wpc[w] # "idle"}

\* C13: in 04 and 06, the loop of restore can always start the next
\* goroutine, whatever sem holds; restore is past the loop only when all
\* len(repos) goroutines have been started; and the goroutines holding the
\* gate are as many as sem holds values, at most 4.
C13_LoopNeverBlocksOnGate ==
    /\ pc = "loop" => ENABLED GoWorker
    /\ pc = "loop" => Started = 1..idx /\ idx < Len(repos)
    /\ pc \notin {"add", "loop"} => Started = Workers
    /\ Cardinality(Holders) = sem
    /\ sem <= SemCap

\* C13 witness: more than 4 goroutines have been started before any call of
\* fetch has returned; 4 of them hold the gate and the others wait for it.
C13_Witness ==
    /\ Cardinality(Started) > SemCap
    /\ FetchCalls = 0
    /\ Cardinality(Holders) = SemCap
    /\ \E w \in Workers : wpc[w] = "acquire"

\* Goroutines of 01 and 02 that have been started and have not yet executed
\* their <-sem.
NotReleased ==
    {w \in Workers :
        wpc[w] \in (IF variant = 1 THEN {"fetch", "store", "done", "release"}
                    ELSE {"fetch", "store", "release"})}

\* C14: in 01 and 02, sem holds one value for each started goroutine that has
\* not yet executed its <-sem (and one for the goroutine the loop is about to
\* start), so these are at most 4; and with 4 of them the loop is blocked at
\* sem <- 1.
C14_SemCapsGoroutines ==
    /\ sem = Cardinality(NotReleased) + (IF pc = "go" THEN 1 ELSE 0)
    /\ Cardinality(NotReleased) <= SemCap
    /\ (pc = "sem" /\ Cardinality(NotReleased) = SemCap) =>
           ~ENABLED (Range \/ LoopAcquire \/ GoFunc)

\* C14 witness: the loop is in its fifth iteration, at sem <- 1, and none of
\* the first four goroutines has executed its <-sem.
C14_Witness ==
    /\ pc = "sem"
    /\ idx = SemCap + 1
    /\ NotReleased = 1..SemCap
    /\ ~ENABLED LoopAcquire

\* Goroutine w is at errChan <- err, errChan is full, and restore has not yet
\* passed wg.Wait.
Stuck(w) ==
    /\ wpc[w] = "store"
    /\ Len(errChan) = ErrCap
    /\ pc \in {"add", "loop", "sem", "go", "wait"}

\* C15: in 01, 02 and 04, a goroutine that is at errChan <- err while errChan
\* holds the error of an earlier failure and restore has not passed wg.Wait
\* cannot send, has not called wg.Done (wg is positive, so wg.Wait cannot
\* return), and stays so in every later state: it is blocked forever, and so
\* is restore before it reads errChan.
C15_BlockedSendIsForever ==
    /\ [](\A w \in Workers : Stuck(w) =>
              /\ ~ENABLED Send(w)
              /\ wg > 0
              /\ err[w] # nil
              /\ pc = "wait" => ~ENABLED restore)
    /\ [][\A w \in Workers : Stuck(w) => Stuck(w)']_vars

\* C15 witness: after two failures restore is at wg.Wait, a failing goroutine
\* is at errChan <- err with errChan full, and nothing can take a step.
C15_Witness ==
    /\ pc = "wait"
    /\ \E w \in Workers : Stuck(w)
    /\ ~ENABLED Next124

\* C16: in 01, restore never panics; once sem is closed the loop is over, so
\* nothing sends on sem any more; and a goroutine at <-sem can always
\* receive, before close(sem) and after it.
C16_CloseSemNeverPanics ==
    /\ ~panicked
    /\ semClosed => pc \in {"close", "recv", "returned"}
    /\ \A w \in Workers : wpc[w] = "release" => ENABLED Release(w)

\* C16 witness: restore has executed close(sem) while a goroutine that has
\* called wg.Done has not yet executed its <-sem.
C16_Witness ==
    /\ semClosed
    /\ \E w \in Workers : wpc[w] = "release"

\* C17: in 06, sem holds between 0 and 4 values, one for each goroutine
\* between its sem <- 1 and its <-sem; a goroutine at sem <- 1 can send
\* exactly when sem holds fewer than 4; and a goroutine at <-sem can always
\* receive.
C17_GateOccupancy ==
    /\ sem \in 0..SemCap
    /\ sem = Cardinality(Holders)
    /\ \A w \in Workers : wpc[w] = "acquire" => (ENABLED Acquire(w) <=> sem # SemCap)
    /\ \A w \in Workers : wpc[w] = "release" => (ENABLED Release(w) /\ sem >= 1)

\* C17 witness: sem holds 4 values, a goroutine is blocked at sem <- 1 and
\* another is about to receive from sem.
C17_Witness ==
    /\ sem = SemCap
    /\ \E w \in Workers : wpc[w] = "acquire" /\ ~ENABLED Acquire(w)
    /\ \E w \in Workers : wpc[w] = "release"

\* Goroutines that have called wg.Done.
Signalled == {w \in Workers : wpc[w] = "exit"}

\* C18: in 06, wg.Add sets the counter to len(repos); from then on the
\* counter is len(repos) less the number of goroutines that have called
\* wg.Done, each of which has called it once; it never grows and never is
\* negative; every step that changes it is one goroutine's wg.Done and takes
\* 1 off; and wg.Wait returns only at 0.
C18_TrackerCount ==
    /\ [](wg >= 0 /\ ~panicked)
    /\ [](pc # "add" => wg = Len(repos) - Cardinality(Signalled))
    /\ [](pc = "returned" => Signalled = Workers)
    /\ [][pc = "add" => wg' = Len(repos)]_vars
    /\ [][(pc # "add" /\ wg' # wg) =>
             /\ wg' = wg - 1
             /\ \E w \in Workers :
                    /\ Moves(w, "done", "exit")
                    /\ \A v \in Workers \ {w} : wpc'[v] = wpc[v]]_vars
    /\ [][(pc = "wait" /\ pc' # "wait") => wg = 0]_vars

\* C18 witness: restore is blocked at wg.Wait with a positive counter after a
\* goroutine whose fetch failed and one whose fetch succeeded have called
\* wg.Done.
C18_Witness ==
    /\ pc = "wait"
    /\ wg > 0
    /\ \E w \in Signalled : arg[w] \in failing
    /\ \E w \in Signalled : arg[w] \notin failing

\* C19: in 06, a goroutine that cannot take a step is at sem <- 1 (or not
\* started, or terminated), and restore, when it cannot take a step, is at
\* wg.Wait (or has returned): the call of fetch, the store, <-sem, wg.Done,
\* wg.Add, the go statement, close(errChan) and the receive from errChan,
\* which is closed by then, are always able to proceed.
C19_OnlyGateAndWaitBlock ==
    /\ \A w \in Workers :
           /\ wpc[w] = "fetch" => ENABLED Fetch(w)
           /\ wpc[w] = "store" => ENABLED TrySend(w)
           /\ wpc[w] = "release" => ENABLED Release(w)
           /\ wpc[w] = "done" => ENABLED Done(w)
           /\ ~ENABLED worker(w) => wpc[w] \in {"idle", "acquire", "exit"}
    /\ pc = "add" => ENABLED Add
    /\ pc = "loop" => ENABLED GoWorker
    /\ pc = "close" => ENABLED CloseErr
    /\ pc = "recv" => errClosed /\ ENABLED Return
    /\ ~ENABLED restore => pc \in {"wait", "returned"}

\* C19 witness: restore is blocked at wg.Wait and a goroutine at sem <- 1,
\* while a goroutine is about to attempt a store on a full errChan.
C19_Witness ==
    /\ pc = "wait" /\ ~ENABLED restore
    /\ \E w \in Workers : wpc[w] = "acquire" /\ ~ENABLED worker(w)
    /\ \E w \in Workers : wpc[w] = "store" /\ Len(errChan) = ErrCap

\* restore is at or past close(errChan).
Reading == pc \in {"close", "recv", "returned"}

\* C20: in 06, when restore is at close(errChan) or past it, every goroutine
\* has called wg.Done and holds no error to store, and no store attempt
\* happens from then on: errChan changes only by the receive of restore.
C20_ReadAfterAllSignalled ==
    /\ [](Reading => Signalled = Workers /\ \A w \in Workers : err[w] = nil)
    /\ [][Reading => \A w \in Workers : ~TrySend(w)]_vars
    /\ [][(Reading /\ errChan' # errChan) => (pc = "recv" /\ pc' = "returned")]_vars

\* C20 witness: restore is about to close errChan, which holds the error of
\* the first of several store attempts.
C20_Witness ==
    /\ pc = "close"
    /\ Len(errChan) = 1
    /\ Cardinality(failing) >= 2

\* Goroutines that have called fetch.
Fetched == {w \in Workers : wpc[w] \in {"store", "release", "done", "exit"}}

\* C21: in 04 and 06, the argument of a started goroutine is the element of
\* the iteration that started it and stays so whatever the loop does next;
\* every call of fetch is made by a goroutine with its own argument, no
\* element is fetched more than once, the elements fetched are those of the
\* goroutines that have called fetch, and when restore returns every element
\* has been fetched once.
C21_EachItemFetchedOnceByItsGoroutine ==
    /\ [](\A w \in Started : arg[w] = repos[w])
    /\ [][\A w \in Started : arg'[w] = arg[w]]_vars
    /\ [][\A r \in 1..Len(repos) :
            fetched'[r] # fetched[r] =>
                \E w \in Workers :
                    /\ wpc[w] = "fetch" /\ wpc'[w] # "fetch"
                    /\ arg[w] = r /\ repos[w] = r
                    /\ fetched[r] = 0 /\ fetched'[r] = 1]_vars
    /\ [](\A r \in 1..Len(repos) :
            fetched[r] = Cardinality({w \in Fetched : arg[w] = r}))
    /\ [](\A r \in 1..Len(repos) : fetched[r] <= 1)
    /\ [](pc = "returned" => \A r \in 1..Len(repos) : fetched[r] = 1)

\* C21 witness: the loop has gone on to its last element while the goroutine
\* started for the first element has fetched that element, and a later
\* goroutine is about to fetch its own.
C21_Witness ==
    /\ Len(repos) >= 3
    /\ idx = Len(repos)
    /\ repo = repos[Len(repos)]
    /\ 1 \in Fetched /\ fetched[1] = 1
    /\ \E w \in Workers : w > 1 /\ wpc[w] = "fetch" /\ fetched[w] = 0

\* C22: in 01 and 02, nothing orders the loop's assignment to repo and a
\* goroutine's read of it: whenever restore is at the head of the loop the
\* assignment can be the next step, and whenever a goroutine is at its call
\* of fetch the read can be the next step.  The element a goroutine fetches
\* is the value of repo at the moment of its call, which is the element of
\* the latest iteration and not before the goroutine's own; an element the
\* loop has gone past without its being fetched is never fetched; and there
\* are as many calls of fetch as goroutines that have called it, so that an
\* element fetched twice leaves another one out.
C22_SharedLoopVariable ==
    /\ [](~panicked /\ pc = "loop" => ENABLED Range)
    /\ [](\A w \in Workers : ~panicked /\ wpc[w] = "fetch" => ENABLED Fetch(w))
    /\ [][\A r \in 1..Len(repos) :
            fetched'[r] # fetched[r] =>
                /\ r = repo /\ r = repos[idx]
                /\ fetched'[r] = fetched[r] + 1
                /\ \E w \in Workers :
                      wpc[w] = "fetch" /\ wpc'[w] # "fetch" /\ w <= r]_vars
    /\ [][\A r \in 1..Len(repos) :
            (r < idx /\ fetched[r] = 0) => fetched'[r] = 0]_vars
    /\ [](FetchCalls = Cardinality(Fetched))

\* C22 witness: restore is at the head of the loop, about to assign the next
\* element to repo, while a goroutine is about to read repo; the goroutine
\* started for the first element has fetched another element, the first
\* element has not been fetched and never will be (the loop is past it), and
\* some element has been fetched twice.
C22_Witness ==
    /\ variant \in {1, 2}
    /\ pc = "loop" /\ idx >= 2
    /\ \E w \in Workers : wpc[w] = "fetch"
    /\ 1 \in Fetched /\ fetched[1] = 0
    /\ \E r \in 1..Len(repos) : fetched[r] >= 2

\* C23: in 06, with restore called again and again on the same repos and a
\* fetch whose outcome depends on the item alone, no call panics, every call
\* returns nil when no item's fetch fails and the error of one of the failing
\* items when some do, and so succeeds exactly when the call before it did;
\* every call starts with an empty, open errChan, an empty sem and a counter
\* of 0.
C23_SameOutcomeEveryCall ==
    /\ ~panicked
    /\ pc = "returned" =>
          /\ ret # nil <=> failing # {}
          /\ ret # nil => ret \in Errors
          /\ prev # <<>> => (ret = nil <=> prev[1] = nil)
    /\ pc = "add" =>
          /\ errChan = <<>> /\ ~errClosed
          /\ sem = 0 /\ ~semClosed
          /\ wg = 0

\* C23 witness: a second call of restore has returned an error, and it is not
\* the error the first call returned.
C23_Witness ==
    /\ pc = "returned"
    /\ prev # <<>>
    /\ ret # nil /\ prev[1] # nil
    /\ ret # prev[1]

\* C24: in 04 and 06, no run panics; errChan is closed by restore only
\* after wg.Wait has returned with the counter at 0; a goroutine attempts its
\* store only before its wg.Done and while errChan is open; and once errChan
\* is closed every goroutine has called wg.Done and no store is attempted.
C24_NoSendAfterClose ==
    /\ [](~panicked)
    /\ [][(~errClosed /\ errClosed') => (pc = "close" /\ wg = 0)]_vars
    /\ [][\A w \in Workers :
            (Send(w) \/ TrySend(w)) => (~errClosed /\ w \notin Signalled)]_vars
    /\ [](errClosed => Signalled = Workers /\ \A w \in Workers : err[w] = nil)
    /\ [][errClosed => \A w \in Workers : ~(Send(w) \/ TrySend(w))]_vars

\* C24 witness: errChan has been closed with the error of a goroutine's store
\* in it, after every goroutine has called wg.Done.
C24_Witness ==
    /\ errClosed
    /\ pc = "recv"
    /\ Len(errChan) = 1
    /\ Signalled = Workers

\* Goroutines at errChan <- err.
Storing == {w \in Workers : wpc[w] = "store"}

\* C25: in 04, every run in which every goroutine that can run does run
\* reaches the return of restore or a second failure of fetch.  restore
\* returns only when at most one fetch has failed, and returns nil when
\* none has and the error of the failing item when one has.  Once two or
\* more have failed restore never gets past wg.Wait: all the failing
\* goroutines but one are at errChan <- err, and a goroutine that is there
\* while errChan is full cannot send, holds a value of sem, and stays there
\* for ever.
C25_ReturnsIffAtMostOneFailure ==
    /\ <>(pc = "returned" \/ Cardinality(failing) >= 2)
    /\ [](pc = "returned" =>
            /\ Cardinality(failing) <= 1
            /\ failing = {} => ret = nil
            /\ \A r \in failing : ret = ErrOf(r))
    /\ [](Cardinality(failing) >= 2 =>
            /\ pc \in {"add", "loop", "wait"}
            /\ Cardinality(Storing) >= Cardinality(failing) - 1)
    /\ [](\A w \in Storing :
            Len(errChan) = ErrCap =>
                /\ ~ENABLED Send(w)
                /\ w \in Holders
                /\ sem = Cardinality(Holders))
    /\ [][\A w \in Workers : Stuck(w) => Stuck(w)']_vars
    /\ [](Cardinality(failing) >= 2 =>
            <>(Len(errChan) = ErrCap
                 /\ Cardinality(Storing) = Cardinality(failing) - 1))

\* C25 witness: three fetches have failed, restore is at wg.Wait, two
\* goroutines are at errChan <- err holding a value of sem each, and nothing
\* can take a step.
C25_Witness ==
    /\ variant = 4
    /\ pc = "wait"
    /\ Cardinality(failing) = 3
    /\ Cardinality(Storing) = 2
    /\ sem = 2
    /\ ~ENABLED Next04

\* Goroutines that have called wg.Done (in 01 the call comes before <-sem).
DoneCalled ==
    {w \in Workers :
        wpc[w] \in (IF variant = 1 THEN {"release", "exit"} ELSE {"exit"})}

\* restore is past wg.Wait.
PastWait == pc \in {"closesem", "close", "recv", "returned"}

\* C26: in every variant, no goroutine is started while restore is at wg.Add,
\* and wg.Add sets the counter to len(repos); from then on the counter is
\* len(repos) less the number of goroutines that have called wg.Done, so it
\* is never negative and no run panics; wg.Wait returns only when it is 0,
\* and restore is past wg.Wait only when every goroutine has been started
\* and has called wg.Done.
C26_WaitCoversEveryGoroutine ==
    /\ [](pc = "add" => Started = {} /\ wg = 0)
    /\ [][pc = "add" => (Started = {} /\ wg' = Len(repos))]_vars
    /\ [](pc # "add" => wg = Len(repos) - Cardinality(DoneCalled))
    /\ [](wg >= 0 /\ ~panicked)
    /\ [][(pc = "wait" /\ pc' # "wait") =>
            (wg = 0 /\ Started = Workers /\ DoneCalled = Workers)]_vars
    /\ [](PastWait => Started = Workers /\ DoneCalled = Workers)

\* C26 witness: restore is blocked at wg.Wait in 01 with the counter
\* at 1, the last goroutine being about to call wg.Done.
C26_Witness ==
    /\ variant = 1
    /\ pc = "wait"
    /\ wg = 1
    /\ ~ENABLED Wait
    /\ \E w \in Workers : wpc[w] = "done"
    /\ Cardinality(DoneCalled) >= 2

\* Goroutines of 01 that have called wg.Done and not yet executed <-sem.
Lingering == {w \in Workers : variant = 1 /\ wpc[w] = "release"}

\* C27: in 02, when restore is past wg.Wait every goroutine has executed
\* <-sem and has terminated, and sem is empty, so that close(sem) closes an
\* empty sem.  In 01, when restore is past wg.Wait every goroutine has
\* called wg.Done, but a goroutine may still be before its <-sem: sem holds
\* one value for each such goroutine, and each of them can still execute its
\* <-sem, also after close(sem) and after the return of restore.
C27_DoneBeforeReleaseLeaks ==
    /\ [](variant = 2 /\ PastWait =>
            /\ \A w \in Workers : wpc[w] = "exit"
            /\ sem = 0)
    /\ [][(variant = 2 /\ ~semClosed /\ semClosed') => sem = 0]_vars
    /\ [](variant = 1 /\ PastWait =>
            /\ \A w \in Workers : wpc[w] \in {"release", "exit"}
            /\ sem = Cardinality(Lingering)
            /\ \A w \in Lingering : ENABLED Release(w))
    /\ [][(variant = 1 /\ ~semClosed /\ semClosed') =>
            sem = Cardinality(Lingering)]_vars

\* C27 witness: restore of 01 has returned while two goroutines have not
\* yet executed <-sem, and closed sem still holds their two values.
C27_Witness ==
    /\ variant = 1
    /\ pc = "returned"
    /\ semClosed
    /\ sem = 2
    /\ Cardinality(Lingering) = 2

====
